---- MODULE Spec2Model ----
(***************************************************************************)
(* Model of api/wsgi.py: the process entry point that installs eventlet's  *)
(* cooperative primitives (psycopg excluded), imports the application and  *)
(* starts the HTTP + WebSocket server when run as the main program.        *)
(*                                                                         *)
(* The entry point itself is modelled statement by statement (pc holds the *)
(* line about to execute).  What happens inside socketio.run and inside    *)
(* the connection handlers belongs to the qsystem package, whose code is   *)
(* not part of the sources at hand; that part follows the written          *)
(* specification (sections 4.2 and 5).                                     *)
(***************************************************************************)
EXTENDS Integers, FiniteSets, Sequences, TLC

(* ------------------------------ bounds --------------------------------- *)
\* number of client connections that may reach the server
MaxConns == 2
\* number of waits (socket, timer or database) one handler performs at most
MaxOps == 1

Conns == 1..MaxConns

(* ----------------------------- vocabulary ------------------------------ *)
\* subsystems the installer knows: sockets, OS threads, timers, the
\* PostgreSQL driver
Subsystems == {"socket", "thread", "time", "psycopg"}

\* subsystems a connection handler can wait on
WaitSubsystems == {"socket", "time", "psycopg"}

\* what the interpreter may have been given; the entry point reads neither
ArgvChoices == {<<"wsgi.py">>, <<"wsgi.py", "--port=80">>}
EnvChoices == {"empty", "PORT=80"}

\* __name__ of the module: run as a script, or imported by another program
NameChoices == {"__main__", "wsgi"}

\* sys.path before the entry point touches it
InitSysPath == <<"site-packages">>

\* exit status of a process that has not exited
NoExit == -1

\* the listening socket: not tried, bound, or one of the fatal bind errors
BindFailures == {"in_use", "denied"}

\* outcome of initialising the application package
ImportOutcomes == {"ok", "fault"}

VARIABLES
    pc,           \* line of wsgi.py about to execute, or "done"
    name,         \* __name__ of the module
    argv,         \* sys.argv
    environ,      \* os.environ
    modules,      \* modules the entry point has imported so far
    sysPath,      \* sys.path
    prim,         \* subsystem -> "native" | "green": the primitives in place
    excluded,     \* subsystems the installer was told to leave alone
    installCount, \* number of completed eventlet.monkey_patch calls
    importOutcome,\* "none" | "ok" | "fault": how the import of qsystem went
    launcher,     \* "not_started" | "running" | "terminated"
    launchArgs,   \* arguments of the socketio.run calls, in call order
    bindOutcome,  \* "none" | "ok" | a member of BindFailures
    bindAttempts, \* number of times the listening socket was bound
    exitStatus,   \* NoExit, or the exit status of the process
    conn,         \* connection -> state of its handler
    waitOn,       \* connection -> subsystem its handler is waiting on
    ops,          \* connection -> waits its handler has performed
    thread        \* connection whose handler holds the OS thread, 0 = hub

vars == <<pc, name, argv, environ, modules, sysPath, prim, excluded,
          installCount, importOutcome, launcher, launchArgs, bindOutcome,
          bindAttempts, exitStatus, conn, waitOn, ops, thread>>

entryVars == <<pc, name, argv, environ, modules, sysPath, prim, excluded,
               installCount, importOutcome>>
serverVars == <<launcher, launchArgs, bindOutcome, bindAttempts, exitStatus>>
connVars == <<conn, waitOn, ops, thread>>

\* the set of patched subsystems (the patch registry)
Patched == {s \in Subsystems : prim[s] = "green"}

(* ------------------------- the entry point ----------------------------- *)
\* order of the statements of wsgi.py (mutant: application imported before
\* the installer call)
NextPcImportFirst(p) ==
    CASE p = "L1" -> "L2"
      [] p = "L2" -> "L4"
      [] p = "L4" -> "L8"
      [] p = "L8" -> "L6"
      [] p = "L6" -> "L10"
      [] OTHER -> "done"

NextPc(p) ==
    CASE p = "L1" -> "L2"
      [] p = "L2" -> "L4"
      [] p = "L4" -> "L6"
      [] p = "L6" -> "L8"
      [] p = "L8" -> "L10"
      [] OTHER -> "done"

\* keyword arguments of the installer call (mutants: none at all; one
\* subsystem switched on explicitly)
PatchArgsNone == << >>

PatchArgsThreadOn == [k \in {"thread", "psycopg"} |-> k = "thread"]

PatchArgs == [k \in {"psycopg"} |-> FALSE]

\* eventlet.monkey_patch(**on): a subsystem named in on is patched as on says;
\* the others are patched unless some argument switches a subsystem on
MonkeyPatch(on, p) ==
    LET default_on == ~(\E k \in DOMAIN on : on[k])
        wanted(s) == IF s \in DOMAIN on THEN on[s] ELSE default_on
    IN  [s \in Subsystems |-> IF wanted(s) THEN "green" ELSE p[s]]

\* __name__ == "__main__" (mutant: the guard is missing)
IsMainAlways(n) == TRUE

IsMain(n) == n = "__main__"

\* arguments of socketio.run: application, host, port, debug
RunArgs == [app |-> "application", host |-> "0.0.0.0", port |-> 5000,
            debug |-> TRUE]

\* initialising qsystem leaves the primitives as the installer set them
QsystemInit(p) == p

\* line 1: import os, sys
ImportOsSys ==
    /\ pc = "L1"
    /\ modules' = modules \cup {"os", "sys"}
    /\ pc' = NextPc(pc)
    /\ UNCHANGED <<name, argv, environ, sysPath, prim, excluded, installCount,
                   importOutcome>>
    /\ UNCHANGED <<serverVars, connVars>>

\* line 2: sys.path.insert(0, os.path.dirname(__file__))
SysPathInsert ==
    /\ pc = "L2"
    /\ sysPath' = <<"api">> \o sysPath
    /\ pc' = NextPc(pc)
    /\ UNCHANGED <<name, argv, environ, modules, prim, excluded, installCount,
                   importOutcome>>
    /\ UNCHANGED <<serverVars, connVars>>

\* line 4: import eventlet
ImportEventlet ==
    /\ pc = "L4"
    /\ modules' = modules \cup {"eventlet"}
    /\ pc' = NextPc(pc)
    /\ UNCHANGED <<name, argv, environ, sysPath, prim, excluded, installCount,
                   importOutcome>>
    /\ UNCHANGED <<serverVars, connVars>>

\* line 6: eventlet.monkey_patch(psycopg=False)
Install ==
    /\ pc = "L6"
    /\ prim' = MonkeyPatch(PatchArgs, prim)
    /\ excluded' = excluded \cup {k \in DOMAIN PatchArgs : ~PatchArgs[k]}
    /\ installCount' = installCount + 1
    /\ pc' = NextPc(pc)
    /\ UNCHANGED <<name, argv, environ, modules, sysPath, importOutcome>>
    /\ UNCHANGED <<serverVars, connVars>>

\* what an exception that nobody catches does to the module body: it ends,
\* and a script exits with status 1 (mutant: the statements sit in a try
\* block whose handler swallows the exception)
UncaughtSwallowed == [pc |-> "done", exit |-> IF IsMain(name) THEN 0 ELSE NoExit]

Uncaught == [pc |-> "done", exit |-> IF IsMain(name) THEN 1 ELSE NoExit]

\* line 8: from qsystem import application, socketio
ImportQsystem ==
    /\ pc = "L8"
    /\ \E outcome \in ImportOutcomes :
         /\ importOutcome' = outcome
         /\ IF outcome = "ok"
            THEN /\ modules' = modules \cup {"qsystem"}
                 /\ prim' = QsystemInit(prim)
                 /\ pc' = NextPc(pc)
                 /\ exitStatus' = exitStatus
            ELSE /\ modules' = modules
                 /\ prim' = prim
                 /\ pc' = Uncaught.pc
                 /\ exitStatus' = Uncaught.exit
    /\ UNCHANGED <<name, argv, environ, sysPath, excluded, installCount>>
    /\ UNCHANGED <<launcher, launchArgs, bindOutcome, bindAttempts>>
    /\ UNCHANGED connVars

\* line 10: if __name__ == "__main__" (mutant: the installer is called once
\* more, with no arguments, before the server is started)
MainGuardRepatch ==
    /\ pc = "L10"
    /\ pc' = IF IsMain(name) THEN "L11" ELSE "done"
    /\ prim' = MonkeyPatch(PatchArgsNone, prim)
    /\ UNCHANGED <<name, argv, environ, modules, sysPath, excluded,
                   installCount, importOutcome>>
    /\ UNCHANGED <<serverVars, connVars>>

MainGuard ==
    /\ pc = "L10"
    /\ pc' = IF IsMain(name) THEN "L11" ELSE "done"
    /\ UNCHANGED <<name, argv, environ, modules, sysPath, prim, excluded,
                   installCount, importOutcome>>
    /\ UNCHANGED <<serverVars, connVars>>

(* --------------------------- the launcher ------------------------------ *)
\* the listening socket is bound: socketio.run keeps the main thread
AfterBindOk == [pc |-> "L11", launcher |-> "running", exit |-> NoExit]

\* the bind fails: the exception leaves socketio.run and nothing catches it
\* (mutant: the call sits in a loop that tries again)
AfterBindFailureRetry ==
    [pc |-> "L11", launcher |-> "not_started", exit |-> NoExit]

AfterBindFailure ==
    [pc |-> Uncaught.pc, launcher |-> "terminated", exit |-> Uncaught.exit]

\* socketio.run returns on shutdown; line 11 is the last statement, so the
\* process exits with status 0 (mutant: the server is started again)
AfterShutdownRestart ==
    [pc |-> "L11", launcher |-> "not_started", exit |-> NoExit]

AfterShutdown == [pc |-> "done", launcher |-> "terminated", exit |-> 0]

\* line 11: socketio.run(application, host="0.0.0.0", port=5000, debug=True),
\* up to the bind of the listening socket
LaunchStart ==
    /\ pc = "L11"
    /\ launcher = "not_started"
    /\ launchArgs' = Append(launchArgs, RunArgs)
    /\ bindAttempts' = bindAttempts + 1
    /\ \E outcome \in {"ok"} \cup BindFailures :
         LET after == IF outcome = "ok" THEN AfterBindOk ELSE AfterBindFailure
         IN  /\ bindOutcome' = outcome
             /\ pc' = after.pc
             /\ launcher' = after.launcher
             /\ exitStatus' = after.exit
    /\ UNCHANGED <<name, argv, environ, modules, sysPath, prim, excluded,
                   installCount, importOutcome>>
    /\ UNCHANGED connVars

\* line 11, the end of the call: a shutdown signal stops the server
Shutdown ==
    /\ pc = "L11"
    /\ launcher = "running"
    /\ pc' = AfterShutdown.pc
    /\ launcher' = AfterShutdown.launcher
    /\ exitStatus' = AfterShutdown.exit
    /\ UNCHANGED <<name, argv, environ, modules, sysPath, prim, excluded,
                   installCount, importOutcome>>
    /\ UNCHANGED <<launchArgs, bindOutcome, bindAttempts>>
    /\ UNCHANGED connVars

(* ------------------- connections on the one OS thread ------------------ *)
\* the accept loop takes a new connection when no handler holds the thread
Accept(c) ==
    /\ launcher = "running"
    /\ thread = 0
    /\ conn[c] = "none"
    /\ conn' = [conn EXCEPT ![c] = "ready"]
    /\ UNCHANGED <<waitOn, ops, thread>>
    /\ UNCHANGED <<entryVars, serverVars>>

\* the hub switches to a handler that is ready to run
Resume(c) ==
    /\ launcher = "running"
    /\ thread = 0
    /\ conn[c] = "ready"
    /\ conn' = [conn EXCEPT ![c] = "run"]
    /\ thread' = c
    /\ UNCHANGED <<waitOn, ops>>
    /\ UNCHANGED <<entryVars, serverVars>>

\* a running handler waits on subsystem s: green primitives hand the
\* thread to the hub, native ones keep it until the wait is over
Wait(c, s) ==
    /\ launcher = "running"
    /\ conn[c] = "run"
    /\ ops[c] < MaxOps
    /\ ops' = [ops EXCEPT ![c] = @ + 1]
    /\ waitOn' = [waitOn EXCEPT ![c] = s]
    /\ IF prim[s] = "green"
       THEN conn' = [conn EXCEPT ![c] = "suspended"] /\ thread' = 0
       ELSE conn' = [conn EXCEPT ![c] = "blocked"] /\ thread' = thread
    /\ UNCHANGED <<entryVars, serverVars>>

\* the hub sees that the wait of a suspended handler is over
Wake(c) ==
    /\ launcher = "running"
    /\ thread = 0
    /\ conn[c] = "suspended"
    /\ conn' = [conn EXCEPT ![c] = "ready"]
    /\ waitOn' = [waitOn EXCEPT ![c] = "none"]
    /\ UNCHANGED <<ops, thread>>
    /\ UNCHANGED <<entryVars, serverVars>>

\* a native blocking call returns to the handler that made it
Return(c) ==
    /\ launcher = "running"
    /\ conn[c] = "blocked"
    /\ conn' = [conn EXCEPT ![c] = "run"]
    /\ waitOn' = [waitOn EXCEPT ![c] = "none"]
    /\ UNCHANGED <<ops, thread>>
    /\ UNCHANGED <<entryVars, serverVars>>

\* a running handler sends its response and ends
Finish(c) ==
    /\ launcher = "running"
    /\ conn[c] = "run"
    /\ conn' = [conn EXCEPT ![c] = "done"]
    /\ thread' = 0
    /\ UNCHANGED <<waitOn, ops>>
    /\ UNCHANGED <<entryVars, serverVars>>

(* --------------------------- specification ----------------------------- *)
Init ==
    /\ pc = "L1"
    /\ name \in NameChoices
    /\ argv \in ArgvChoices
    /\ environ \in EnvChoices
    /\ modules = {}
    /\ sysPath = InitSysPath
    /\ prim = [s \in Subsystems |-> "native"]
    /\ excluded = {}
    /\ installCount = 0
    /\ importOutcome = "none"
    /\ launcher = "not_started"
    /\ launchArgs = << >>
    /\ bindOutcome = "none"
    /\ bindAttempts = 0
    /\ exitStatus = NoExit
    /\ conn = [c \in Conns |-> "none"]
    /\ waitOn = [c \in Conns |-> "none"]
    /\ ops = [c \in Conns |-> 0]
    /\ thread = 0

Next ==
    \/ ImportOsSys
    \/ SysPathInsert
    \/ ImportEventlet
    \/ Install
    \/ ImportQsystem
    \/ MainGuard
    \/ LaunchStart
    \/ Shutdown
    \/ \E c \in Conns : Accept(c)
    \/ \E c \in Conns : Resume(c)
    \/ \E c \in Conns : \E s \in WaitSubsystems : Wait(c, s)
    \/ \E c \in Conns : Wake(c)
    \/ \E c \in Conns : Return(c)
    \/ \E c \in Conns : Finish(c)

Spec == Init /\ [][Next]_vars

\* the hub runs every handler that is ready and notices every finished wait
\* (its run queue is first in, first out); a handler holding the thread
\* keeps executing, and a native call comes back
LiveSpec ==
    /\ Spec
    /\ \A c \in Conns : SF_vars(Resume(c))
    /\ \A c \in Conns : SF_vars(Wake(c))
    /\ \A c \in Conns : WF_vars(Return(c))
    /\ \A c \in Conns : WF_vars(Finish(c) \/ \E s \in WaitSubsystems : Wait(c, s))

TypeOK ==
    /\ pc \in {"L1", "L2", "L4", "L6", "L8", "L10", "L11", "done"}
    /\ name \in NameChoices
    /\ prim \in [Subsystems -> {"native", "green"}]
    /\ launcher \in {"not_started", "running", "terminated"}
    /\ conn \in [Conns -> {"none", "ready", "run", "suspended", "blocked", "done"}]
    /\ thread \in {0} \cup Conns

(* ------------------------------ properties ----------------------------- *)
\* handlers that are inside a call on the database driver
InDb(c) == conn[c] \in {"suspended", "blocked"} /\ waitOn[c] = "psycopg"

\* handlers that are inside a socket or timer wait
InIo(c) == conn[c] \in {"suspended", "blocked"} /\ waitOn[c] \in {"socket", "time"}

\* C1: the installer runs exactly once, and it has completed whenever the
\* application module is imported (or its import is attempted) and whenever
\* the launcher call is reached or started; a finished module body has run
\* it once.
C1_InstallerOnceBeforeImportAndLaunch ==
    /\ installCount <= 1
    /\ ("qsystem" \in modules \/ importOutcome # "none") => installCount = 1
    /\ (pc = "L11" \/ launcher # "not_started" \/ bindAttempts > 0)
          => installCount = 1
    /\ pc = "done" => installCount = 1

C1_Witness ==
    /\ launcher = "running"
    /\ installCount = 1
    /\ "qsystem" \in modules

\* C2 (as stated): the installer is the first action of the process: before
\* the installer call no module has been initialised and no process-wide
\* state has been changed.
C2_InstallerIsFirstAction ==
    installCount = 0 => (modules = {} /\ sysPath = InitSysPath)

\* C2 (amended): before the installer call the entry point only imports os,
\* sys and eventlet and prepends its own directory to sys.path; at the
\* moment of the call exactly these have happened, the application module
\* qsystem is not loaded, its import has not been attempted, no subsystem is
\* patched and the launcher has not been started.
C2_OnlyBootstrapBeforeInstaller ==
    /\ installCount = 0 =>
          /\ modules \subseteq {"os", "sys", "eventlet"}
          /\ importOutcome = "none"
          /\ Patched = {}
          /\ launcher = "not_started"
          /\ bindAttempts = 0
    /\ (pc = "L6" /\ installCount = 0) =>
          /\ modules = {"os", "sys", "eventlet"}
          /\ sysPath = <<"api">> \o InitSysPath

C2_Witness ==
    /\ pc = "L6"
    /\ installCount = 0
    /\ "eventlet" \in modules
    /\ Len(sysPath) = Len(InitSysPath) + 1

\* C3: once the installer has run, psycopg is not patched and still has its
\* native primitives, it is the exclusion set, and sockets, OS threads and
\* timers are all patched.
C3_ExcludedNativeIncludedPatched ==
    installCount >= 1 =>
        /\ "psycopg" \notin Patched
        /\ prim["psycopg"] = "native"
        /\ excluded = {"psycopg"}
        /\ {"socket", "thread", "time"} \subseteq Patched
        /\ \A s \in {"socket", "thread", "time"} : prim[s] = "green"

C3_Witness ==
    /\ installCount = 1
    /\ \E c \in Conns : conn[c] = "blocked" /\ waitOn[c] = "psycopg"
    /\ \E c \in Conns : conn[c] = "suspended" /\ waitOn[c] = "socket"

\* C4: when the bind of the listening socket fails, the process is
\* terminated with a non-zero exit status, no connection has been accepted
\* and the bind has been attempted exactly once.
C4_BindFailureIsFatal ==
    bindOutcome \in BindFailures =>
        /\ launcher = "terminated"
        /\ pc = "done"
        /\ exitStatus # NoExit
        /\ exitStatus # 0
        /\ \A c \in Conns : conn[c] = "none"
        /\ bindAttempts = 1
        /\ Len(launchArgs) = 1

C4_Witness ==
    /\ bindOutcome = "in_use"
    /\ launcher = "terminated"
    /\ exitStatus = 1

\* C5: while the launcher is running the entry point stays inside the
\* socketio.run call and the process has not exited; the entry point moves
\* on only by the shutdown, which ends the process with status 0; a bind
\* failure or a fault while importing the application ends it with a
\* non-zero status.
C5_RunBlocksUntilShutdown ==
    /\ [](launcher = "running" => (pc = "L11" /\ exitStatus = NoExit))
    /\ [][(launcher = "running" /\ pc' # pc) =>
             (launcher' = "terminated" /\ exitStatus' = 0)]_vars
    /\ []((launcher = "terminated" /\ bindOutcome = "ok") => exitStatus = 0)
    /\ [](bindOutcome \in BindFailures => exitStatus >= 1)
    /\ []((importOutcome = "fault" /\ name = "__main__") => exitStatus >= 1)
    /\ [](exitStatus = 0 => (launcher = "terminated" /\ bindOutcome = "ok"))

C5_Witness ==
    /\ launcher = "terminated"
    /\ bindOutcome = "ok"
    /\ exitStatus = 0
    /\ \E c \in Conns : conn[c] = "done"

\* C6: no handler keeps the OS thread while it waits on a socket or a
\* timer: such a wait always suspends the handler and frees the thread, and
\* every accepted connection completes (unless the server is shut down
\* first).
C6_IoWaitYields ==
    /\ [](\A c \in Conns : InIo(c) => (conn[c] = "suspended" /\ thread # c))
    /\ \A c \in Conns :
          (conn[c] # "none") ~> (conn[c] = "done" \/ launcher = "terminated")

C6_Witness ==
    /\ launcher = "running"
    /\ thread = 0
    /\ \E c, d \in Conns :
          /\ c # d
          /\ conn[c] = "suspended" /\ waitOn[c] = "socket"
          /\ conn[d] = "suspended" /\ waitOn[d] = "time"

\* C7: while a handler is inside a call on the database driver it holds the
\* OS thread, and no step changes the state of any other connection.
C7_DbCallBlocksOthers ==
    [][\A c \in Conns : InDb(c) =>
          /\ thread = c
          /\ thread' = c
          /\ \A d \in Conns \ {c} :
                conn'[d] = conn[d] /\ ops'[d] = ops[d] /\ waitOn'[d] = waitOn[d]]_vars

C7_Witness ==
    /\ launcher = "running"
    /\ \E c, d \in Conns :
          /\ c # d
          /\ InDb(c)
          /\ conn[c] = "blocked"
          /\ conn[d] = "suspended"
          /\ waitOn[d] = "socket"

\* C8: once the installer has run, no step changes the primitives in place
\* or the exclusion set; the only step that changes them is the installer
\* call, and it is taken while the launcher is not started and no
\* connection exists.
C8_RegistryWriteOnce ==
    /\ [][installCount >= 1 => (prim' = prim /\ excluded' = excluded)]_vars
    /\ [][(prim' # prim \/ excluded' # excluded) =>
             /\ pc = "L6"
             /\ installCount' = installCount + 1
             /\ launcher = "not_started"
             /\ thread = 0
             /\ \A c \in Conns : conn[c] = "none"]_vars

C8_Witness ==
    /\ installCount = 1
    /\ launcher = "terminated"
    /\ Patched = {"socket", "thread", "time"}
    /\ excluded = {"psycopg"}
    /\ \A c \in Conns : conn[c] = "done"

\* C9: the launcher is not started, running or terminated, and changes only
\* from not started to running, from running to terminated, or from not
\* started to terminated when the bind fails; once terminated it stays
\* terminated and the bind is not attempted again.
C9_LauncherLifecycle ==
    /\ [](launcher \in {"not_started", "running", "terminated"})
    /\ [][launcher' # launcher =>
             \/ launcher = "not_started" /\ launcher' = "running"
             \/ launcher = "running" /\ launcher' = "terminated"
             \/ /\ launcher = "not_started" /\ launcher' = "terminated"
                /\ bindOutcome' \in BindFailures]_vars
    /\ [][launcher = "terminated" =>
             (launcher' = "terminated" /\ bindAttempts' = bindAttempts)]_vars
    /\ [](bindAttempts <= 1)

C9_Witness ==
    /\ launcher = "terminated"
    /\ bindOutcome = "ok"
    /\ bindAttempts = 1
    /\ \E c \in Conns : conn[c] = "ready"

\* C10: the launcher is started only when the module runs as the main
\* program, at most once, and with the application, host 0.0.0.0, port 5000
\* and debug on whatever argv and the environment hold; the main program
\* that gets past the import starts it; a module that is merely imported
\* runs the installer and the import of the application and leaves the
\* launcher not started.
C10_LaunchOnlyAsMain ==
    /\ (launcher # "not_started" \/ bindAttempts > 0 \/ launchArgs # << >>)
          => name = "__main__"
    /\ Len(launchArgs) <= 1
    /\ Len(launchArgs) = bindAttempts
    /\ \A i \in 1..Len(launchArgs) :
          launchArgs[i] = [app |-> "application", host |-> "0.0.0.0",
                           port |-> 5000, debug |-> TRUE]
    /\ (name = "__main__" /\ pc = "done" /\ importOutcome = "ok")
          => Len(launchArgs) = 1
    /\ (name # "__main__" /\ pc = "done") =>
          /\ installCount = 1
          /\ importOutcome # "none"
          /\ launcher = "not_started"
          /\ exitStatus = NoExit

C10_Witness ==
    /\ name = "wsgi"
    /\ pc = "done"
    /\ "qsystem" \in modules
    /\ installCount = 1
    /\ launcher = "not_started"
    /\ argv = <<"wsgi.py", "--port=80">>
    /\ environ = "PORT=80"
====
